---- MODULE Spec2Model ----
(***************************************************************************)
(* Model of the TutorChat conversation controller (components/TutorChat)   *)
(* and of the geminiService client it calls.                               *)
(*                                                                         *)
(* Strings are sequences of tokens.  The tokens "ERROR_MODE", "[", "]",    *)
(* "EXPLANATION", " " and "\n" are the ones the code's string operations   *)
(* look at; every other token stands for a run of ordinary characters.     *)
(***************************************************************************)
EXTENDS Integers, Sequences, FiniteSets, TLC

(* ------------------------------ bounds --------------------------------- *)
MaxSends == 2
MaxClock == 1
MaxSpeech == 3
MaxCopies == 1
MaxAlerts == 1
MaxGenerations == 2

(* --------------------------- string helpers ---------------------------- *)
NoImage == "null"
Undefined == <<"undefined">>

EXPLANATION_MARKER == <<"[", "EXPLANATION", "]">>
ERROR_PREFIX == <<"ERROR_MODE", "[">>

WhiteSpace == {" ", "\n"}

\* String.prototype.startsWith
StartsWithAt(s, p, i) ==
    /\ i + Len(p) - 1 <= Len(s)
    /\ \A k \in 1..Len(p) : s[i + k - 1] = p[k]

StartsWith(s, p) == StartsWithAt(s, p, 1)

\* String.prototype.indexOf, 1-based; 0 when p does not occur in s
IndexOf(s, p) ==
    LET hits == {i \in 1..Len(s) : StartsWithAt(s, p, i)}
    IN  IF hits = {} THEN 0 ELSE CHOOSE i \in hits : \A j \in hits : i <= j

\* String.prototype.trim
trim(s) ==
    LET solid == {i \in 1..Len(s) : s[i] \notin WhiteSpace}
    IN  IF solid = {} THEN <<>>
        ELSE LET lo == CHOOSE i \in solid : \A j \in solid : i <= j
                 hi == CHOOSE i \in solid : \A j \in solid : i >= j
             IN  SubSeq(s, lo, hi)

\* s.split(EXPLANATION_MARKER)[0]
SplitPart0(s) ==
    LET i == IndexOf(s, EXPLANATION_MARKER)
    IN  IF i = 0 THEN s ELSE SubSeq(s, 1, i - 1)

SplitPart1_EmptyForMissing(s) ==
    LET i == IndexOf(s, EXPLANATION_MARKER)
    IN  IF i = 0 THEN <<>>
        ELSE LET rest == SubSeq(s, i + Len(EXPLANATION_MARKER), Len(s))
                 j == IndexOf(rest, EXPLANATION_MARKER)
             IN  IF j = 0 THEN rest ELSE SubSeq(rest, 1, j - 1)

\* s.split(EXPLANATION_MARKER)[1]
SplitPart1(s) ==
    LET i == IndexOf(s, EXPLANATION_MARKER)
    IN  IF i = 0 THEN Undefined
        ELSE LET rest == SubSeq(s, i + Len(EXPLANATION_MARKER), Len(s))
                 j == IndexOf(rest, EXPLANATION_MARKER)
             IN  IF j = 0 THEN rest ELSE SubSeq(rest, 1, j - 1)

EncodeError_Unclosed(errorType, errorText) == ERROR_PREFIX \o <<errorType>> \o <<" ">> \o errorText

\* `ERROR_MODE[${errorType}]${errorText}`
EncodeError(errorType, errorText) == ERROR_PREFIX \o <<errorType, "]">> \o errorText

\* m.text.startsWith('ERROR_MODE[')
IsErrorText(text) == StartsWith(text, ERROR_PREFIX)

\* m.text.match(/ERROR_MODE\[(.*?)\](.*)/): the leftmost position where the
\* prefix is followed by a "]" on the same line; group 1 is lazy, group 2
\* runs to the end of the line.  A dot does not match "\n".
MatchStarts(s) ==
    {i \in 1..Len(s) :
        /\ StartsWithAt(s, ERROR_PREFIX, i)
        /\ \E c \in (i + 2)..Len(s) :
              /\ s[c] = "]"
              /\ \A k \in (i + 2)..(c - 1) : s[k] # "\n"}

LineEnd(s, from) ==
    LET nl == {k \in from..Len(s) : s[k] = "\n"}
    IN  IF nl = {} THEN Len(s) ELSE (CHOOSE k \in nl : \A j \in nl : k <= j) - 1

ErrorMatch(s) ==
    IF MatchStarts(s) = {} THEN [matched |-> FALSE, type |-> <<>>, rest |-> <<>>]
    ELSE LET i == CHOOSE a \in MatchStarts(s) : \A b \in MatchStarts(s) : a <= b
             cs == {c \in (i + 2)..Len(s) :
                       s[c] = "]" /\ \A k \in (i + 2)..(c - 1) : s[k] # "\n"}
             c == CHOOSE a \in cs : \A b \in cs : a <= b
         IN  [matched |-> TRUE,
              type |-> SubSeq(s, i + 2, c - 1),
              rest |-> SubSeq(s, c + 1, LineEnd(s, c + 1))]

\* the (isError, errorType, displayContent) the message render computes
RenderDecode(text) ==
    LET isError == IsErrorText(text)
        m == ErrorMatch(text)
    IN  [isError |-> isError,
         errorType |-> IF isError /\ m.matched THEN m.type ELSE <<"unknown">>,
         displayContent |-> IF isError /\ m.matched THEN m.rest ELSE text]


(* --------------------------- geminiService ----------------------------- *)
MSG_OFFLINE  == <<"You appear to be offline. Please check your internet connection.">>
MSG_SAFETY   == <<"This content was flagged by safety filters. Please try rephrasing your question.">>
MSG_EMPTY    == <<"The AI returned an empty response. Please try again.">>
MSG_NETWORK  == <<"Network connection failed. Please check your internet.">>
MSG_TIMEOUT  == <<"The request took too long. The server might be busy.">>
MSG_CAPACITY == <<"AI capacity reached. Please wait a minute and try again.">>
MSG_GENERIC  == <<"The study server encountered an error. Please try again later.">>

\* String.prototype.toLowerCase on the tokens error descriptions are made of
LowerToken(t) ==
    CASE t = "Failed"   -> "failed"
      [] t = "Fetch"    -> "fetch"
      [] t = "Network"  -> "network"
      [] t = "Deadline" -> "deadline"
      [] t = "Timeout"  -> "timeout"
      [] t = "Quota"    -> "quota"
      [] OTHER          -> t

toLowerCase(s) == [i \in 1..Len(s) |-> LowerToken(s[i])]

\* String.prototype.includes
includes(s, p) == IndexOf(s, p) # 0

StudyAIError(type, message) ==
    [ok |-> FALSE, classified |-> TRUE, type |-> type, message |-> message]

ClassifyError_TimeoutFirst(description) ==
    LET msg == toLowerCase(description)
    IN  IF \/ includes(msg, <<"deadline">>)
           \/ includes(msg, <<"timeout">>)
           \/ includes(msg, <<"exceeded">>)
        THEN StudyAIError("timeout", MSG_TIMEOUT)
        ELSE IF \/ includes(msg, <<"fetch">>)
                \/ includes(msg, <<"network">>)
                \/ includes(msg, <<"failed", " ", "to", " ", "execute">>)
        THEN StudyAIError("network", MSG_NETWORK)
        ELSE IF \/ includes(msg, <<"429">>)
                \/ includes(msg, <<"quota">>)
                \/ includes(msg, <<"too", " ", "many", " ", "requests">>)
        THEN StudyAIError("server", MSG_CAPACITY)
        ELSE StudyAIError("server", MSG_GENERIC)

\* the catch block of solveQuestion, applied to a raw (unclassified) error
ClassifyError(description) ==
    LET msg == toLowerCase(description)
    IN  IF \/ includes(msg, <<"fetch">>)
           \/ includes(msg, <<"network">>)
           \/ includes(msg, <<"failed", " ", "to", " ", "execute">>)
        THEN StudyAIError("network", MSG_NETWORK)
        ELSE IF \/ includes(msg, <<"deadline">>)
                \/ includes(msg, <<"timeout">>)
                \/ includes(msg, <<"exceeded">>)
        THEN StudyAIError("timeout", MSG_TIMEOUT)
        ELSE IF \/ includes(msg, <<"429">>)
                \/ includes(msg, <<"quota">>)
                \/ includes(msg, <<"too", " ", "many", " ", "requests">>)
        THEN StudyAIError("server", MSG_CAPACITY)
        ELSE StudyAIError("server", MSG_GENERIC)

\* solveQuestion: `online` is navigator.onLine, `raw` what the SDK does:
\*   [k |-> "noclient"]            the GoogleGenAI constructor throws
\*   [k |-> "text", text |-> t]    generateContent resolves with text t
\*   [k |-> "empty", finishReason] generateContent resolves with no text
\*   [k |-> "throw", message]      generateContent rejects
\* the result also records `online`, `raw` and whether
\* ai.models.generateContent was called (`requested`): getAIClient() runs
\* first, then the offline check
solveQuestion(online, raw) ==
    LET outcome ==
            IF raw.k = "noclient"
            THEN [ok |-> FALSE, classified |-> FALSE, type |-> "", message |-> <<>>]
            ELSE IF ~online THEN StudyAIError("network", MSG_OFFLINE)
            ELSE IF raw.k = "text"
            THEN [ok |-> TRUE, classified |-> FALSE, type |-> "", message |-> raw.text]
            ELSE IF raw.k = "empty"
            THEN IF raw.finishReason = "SAFETY"
                 THEN StudyAIError("safety", MSG_SAFETY)
                 ELSE StudyAIError("server", MSG_EMPTY)
            ELSE ClassifyError(raw.message)
    IN  outcome @@ [online |-> online, raw |-> raw,
                    requested |-> (raw.k # "noclient" /\ online)]

(* ------------------------- environment inputs -------------------------- *)
\* what the user types
Inputs ==
    { <<" ">>,
      <<"q1">>,
      <<"ERROR_MODE", "[", "x", "]", "q2">> }

Images == {"data:image/jpeg;base64,AAAA"}

\* texts the remote model returns
AITexts ==
    { <<"A">>,
      <<"A", "[", "EXPLANATION", "]", "B">>,
      <<"ERROR_MODE", "[", "x", "]", "A">>,
      <<"[", "EXPLANATION", "]", "B">>,
      <<"A", "[", "EXPLANATION", "]", "B", "[", "EXPLANATION", "]", "C">> }

\* error.message of a rejected generateContent call (<<>>: no message)
ErrorDescriptions ==
    { <<"TypeError:", " ", "Failed", " ", "to", " ", "fetch">>,
      <<"Deadline", " ", "exceeded">>,
      <<"429", " ", "Quota">>,
      <<"Network", " ", "Timeout">>,
      <<"Timeout", " ", "429">>,
      <<"too", " ", "many", " ", "requests">>,
      <<"Failed", " ", "to", " ", "execute">>,
      <<"internal">>,
      <<>> }

RawOutcomes ==
    {[k |-> "noclient"]}
    \cup {[k |-> "text", text |-> t] : t \in AITexts}
    \cup {[k |-> "empty", finishReason |-> f] : f \in {"SAFETY", "STOP"}}
    \cup {[k |-> "throw", message |-> m] : m \in ErrorDescriptions}

(* ----------------------- geminiService: past papers -------------------- *)
\* the first of YEARS = Array.from({ length: 15 }, (_, i) => (2024 - i).toString()),
\* a year standing for its decimal string
YEARS == <<2024, 2023>>
Subjects == {"Mathematics", "ICT"}

PAPER_EMPTY == <<"Failed to generate full past paper.">>
PAPER_ERROR ==
    <<"Error: Could not retrieve the full question set for this year. Please try again.">>

\* what a generatePastPaper call meets: getAIClient() throws ("noclient"), or
\* generateContent resolves with a text ("text"), resolves with no text
\* ("empty": response.text undefined or '') or rejects ("throw")
PaperOutcomes ==
    { [k |-> "text", text |-> <<"PAPER">>], [k |-> "text", text |-> <<>>],
      [k |-> "empty"], [k |-> "throw"], [k |-> "noclient"] }

\* generatePastPaper(subject, year): `threw` when the promise rejects, else
\* `value` is the string it resolves with; getAIClient() is called before the try
generatePastPaper(subject, year, raw) ==
    IF raw.k = "noclient" THEN [threw |-> TRUE, value |-> <<>>]
    ELSE [threw |-> FALSE,
          value |-> IF raw.k = "throw" THEN PAPER_ERROR
                    ELSE IF raw.k = "text" /\ raw.text # <<>> THEN raw.text
                    ELSE PAPER_EMPTY]

(* ------------------------------- state --------------------------------- *)
VARIABLES
    messages,              \* useState<ChatMessage[]>: the transcript
    input,                 \* useState(''): the text field
    image,                 \* useState<string | null>: the pending image
    loading,               \* useState(false)
    isTTSEnabled,          \* useState(false)
    isSpeaking,            \* useState(false)
    isPaused,              \* useState(false)
    isListening,           \* useState(false)
    revealedExplanations,  \* useState<Set<string>>
    audioContextRef,       \* "none" (null), or the AudioContext's state: "running" | "suspended"
    currentSourceRef,      \* 0 (null), or the number of a source
    sources,               \* every AudioBufferSourceNode created: its state
    recognition,           \* the SpeechRecognition engine: "idle" | "active" | "stopping"
    requests,              \* solveQuestion calls awaited by a handleSend
    speech,                \* generateSpeech calls awaited by a speakText
    plays,                 \* playAudio calls awaiting ctx.resume()
    ctxOps,                \* suspend()/resume() awaited by togglePauseResume
    copiedId,              \* useState<string | null>: the message showing "Copied!"
    copyWrites,            \* navigator.clipboard.writeText promises not yet settled
    copyTimers,            \* setTimeout(() => setCopiedId(null), 2000) not yet fired
    nCopies,               \* number of handleCopy calls
    mounted,               \* TutorChat is mounted (its unmount cleanup has not run)
    orphanContexts,        \* AudioContexts of earlier TutorChat instances that are not closed
    alerts,                \* number of alert() dialogs shown
    selectedSubject,       \* QuestionDownloader: useState<Subject>('Mathematics')
    selectedYear,          \* QuestionDownloader: useState<BECEYear>(YEARS[0])
    isGenerating,          \* QuestionDownloader: useState(false)
    activeReadingSection,  \* QuestionDownloader: useState<string>('top')
    paperCache,            \* QuestionDownloader: useState<Record<string, string>>, in key order
    generations,           \* generatePastPaper calls awaited by a handleGenerate
    downloaderMounted,     \* App: activeTab === 'mock', <QuestionDownloader /> is rendered
    now,                   \* Date.now()
    nSends,                \* number of handleSend calls that passed the guard
    nSpeech                \* number of generateSpeech calls issued

chatVars  == <<messages, input, image, loading, requests, nSends>>
voiceVars == <<isTTSEnabled, speech, nSpeech, revealedExplanations>>
audioVars == <<isSpeaking, isPaused, audioContextRef, currentSourceRef, sources, plays, ctxOps>>
micVars   == <<isListening, recognition>>
copyVars  == <<copiedId, copyWrites, copyTimers, nCopies>>
paperVars == <<selectedSubject, selectedYear, isGenerating, activeReadingSection,
               paperCache, generations, downloaderMounted>>
lifeVars  == <<mounted, orphanContexts>>
pageVars  == <<lifeVars, alerts, paperVars>>
vars == <<chatVars, voiceVars, audioVars, micVars, copyVars, now, pageVars>>

\* a ChatMessage; `send`, `via` and `res` are history: the handleSend call that
\* created it, the branch that did ("user", "success", "failure") and, for a
\* model message, what its solveQuestion call resolved or rejected with
ChatMessage(id, role, text, img, send, via, res) ==
    [id |-> id, role |-> role, text |-> text, image |-> img,
     send |-> send, via |-> via, res |-> res]

\* copiedId null (message ids are clock readings, never negative)
NoCopied == -1

NoResult ==
    [ok |-> FALSE, classified |-> FALSE, type |-> "", message |-> <<>>,
     online |-> TRUE, raw |-> [k |-> "none"], requested |-> FALSE]

\* the state after the first render, `engine` being "unsupported" in a browser
\* without SpeechRecognition (recognitionRef.current stays null) and "idle" in
\* one that has it
InitWith(engine) ==
    /\ messages = <<>>
    /\ input = <<>>
    /\ image = NoImage
    /\ loading = FALSE
    /\ isTTSEnabled = FALSE
    /\ isSpeaking = FALSE
    /\ isPaused = FALSE
    /\ isListening = FALSE
    /\ revealedExplanations = {}
    /\ audioContextRef = "none"
    /\ currentSourceRef = 0
    /\ sources = <<>>
    /\ recognition = engine
    /\ requests = {}
    /\ speech = {}
    /\ plays = {}
    /\ ctxOps = {}
    /\ copiedId = NoCopied
    /\ copyWrites = {}
    /\ copyTimers = {}
    /\ nCopies = 0
    /\ now = 0
    /\ nSends = 0
    /\ nSpeech = 0
    /\ mounted = TRUE
    /\ orphanContexts = 0
    /\ alerts = 0
    /\ selectedSubject = "Mathematics"
    /\ selectedYear = YEARS[1]
    /\ isGenerating = FALSE
    /\ activeReadingSection = "top"
    /\ paperCache = <<>>
    /\ generations = <<>>
    /\ downloaderMounted = TRUE

Init == InitWith("idle")

(* ------------------------------ speakText ------------------------------ *)
ACK_TEXT == <<"Checking that for you...">>
REVEAL_PREFIX == <<"Here is the explanation: ">>
DEFAULT_ERROR_TEXT == <<"I'm sorry, I couldn't process your request right now.">>

\* text.replace(EXPLANATION_MARKER, '. Next, the explanation: '): first occurrence
CleanText(text) ==
    LET i == IndexOf(text, EXPLANATION_MARKER)
    IN  IF i = 0 THEN text
        ELSE SubSeq(text, 1, i - 1) \o <<". Next, the explanation: ">>
             \o SubSeq(text, i + Len(EXPLANATION_MARKER), Len(text))

\* speakText(text) as called from a render in which isTTSEnabled was `tts`:
\* returns at once when voice is off, else issues one generateSpeech call
speakText(tts, text) ==
    IF tts
    THEN /\ nSpeech < MaxSpeech
         /\ speech' = speech \cup {[n |-> nSpeech + 1, text |-> CleanText(text)]}
         /\ nSpeech' = nSpeech + 1
    ELSE UNCHANGED <<speech, nSpeech>>

(* ------------------------------ handleSend ----------------------------- *)
SendRejected_NoTrim == input = <<>> /\ image = NoImage

\* if (!input.trim() && !image) return;
SendRejected == trim(input) = <<>> /\ image = NoImage

\* the Ask button's disabled attribute
AskDisabled == loading \/ (input = <<>> /\ image = NoImage)

UserMessage_NoImage == ChatMessage(now, "user", input, NoImage, nSends + 1, "user", NoResult)

\* userMessage: { id: Date.now(), role: 'user', text: input, image: image || undefined }
UserMessage == ChatMessage(now, "user", input, image, nSends + 1, "user", NoResult)

\* setMessages(prev => [...prev, userMessage])
AppendUser(prev, userMessage) == Append(prev, userMessage)

AppendBot_Front(prev, botMessage) == <<botMessage>> \o prev

\* setMessages(prev => [...prev, botMessage])
AppendBot(prev, botMessage) == Append(prev, botMessage)

\* the part of handleSend up to the await of solveQuestion
handleSend ==
    IF SendRejected
    THEN UNCHANGED vars
    ELSE /\ nSends < MaxSends
         /\ recognition' = IF isListening /\ recognition = "active"
                           THEN "stopping" ELSE recognition
         /\ messages' = AppendUser(messages, UserMessage)
         /\ input' = <<>>
         /\ image' = NoImage
         /\ loading' = TRUE
         /\ speakText(isTTSEnabled, ACK_TEXT)
         /\ requests' = requests \cup
                {[send |-> nSends + 1, tts |-> isTTSEnabled, lenAtSend |-> Len(messages)]}
         /\ nSends' = nSends + 1
         /\ UNCHANGED <<isTTSEnabled, revealedExplanations, audioVars, isListening, copyVars, now, pageVars>>

\* onClick of the Ask button
SendByButton == ~AskDisabled /\ handleSend

\* onKeyPress of the text field, key Enter
SendByEnter == handleSend

AnswerPart_Whole(aiResponse) == aiResponse

\* aiResponse.split(EXPLANATION_MARKER)[0]
AnswerPart(aiResponse) == SplitPart0(aiResponse)

\* the catch block's errorType and errorText
CaughtType(res) == IF res.classified THEN res.type ELSE "unknown"
CaughtText(res) == IF res.classified THEN res.message ELSE DEFAULT_ERROR_TEXT

BotMessage_AnswerOnly(r, res) ==
    IF res.ok
    THEN ChatMessage(now + 1, "model", SplitPart0(res.message), NoImage, r.send, "success", res)
    ELSE ChatMessage(now + 1, "model", EncodeError(CaughtType(res), CaughtText(res)),
                     NoImage, r.send, "failure", res)

BotMessage(r, res) ==
    IF res.ok
    THEN ChatMessage(now + 1, "model", res.message, NoImage, r.send, "success", res)
    ELSE ChatMessage(now + 1, "model", EncodeError(CaughtType(res), CaughtText(res)),
                     NoImage, r.send, "failure", res)

Deliver_LoadingStuck(r, online, raw) ==
    LET res == solveQuestion(online, raw)
    IN  /\ requests' = requests \ {r}
        /\ messages' = AppendBot(messages, BotMessage(r, res))
        /\ loading' = IF res.ok THEN FALSE ELSE loading
        /\ IF res.ok
           THEN speakText(r.tts /\ res.message # <<>>, AnswerPart(res.message))
           ELSE speakText(r.tts, CaughtText(res))
        /\ UNCHANGED <<input, image, nSends, isTTSEnabled, revealedExplanations,
                       audioVars, micVars, copyVars, now, pageVars>>

Deliver_AfterSpeech(r, online, raw) ==
    LET res == solveQuestion(online, raw)
    IN  /\ speech = {}
        /\ requests' = requests \ {r}
        /\ messages' = AppendBot(messages, BotMessage(r, res))
        /\ loading' = FALSE
        /\ IF res.ok
           THEN speakText(r.tts /\ res.message # <<>>, AnswerPart(res.message))
           ELSE speakText(r.tts, CaughtText(res))
        /\ UNCHANGED <<input, image, nSends, isTTSEnabled, revealedExplanations,
                       audioVars, micVars, copyVars, now, pageVars>>

\* the rest of handleSend, run when the solveQuestion call of r settles, where
\* `online` was navigator.onLine at the call and `raw` is what the SDK did; the
\* isTTSEnabled it reads is the one of the render that called handleSend
Deliver(r, online, raw) ==
    LET res == solveQuestion(online, raw)
    IN  /\ requests' = requests \ {r}
        /\ messages' = AppendBot(messages, BotMessage(r, res))
        /\ loading' = FALSE
        /\ IF res.ok
           THEN speakText(r.tts /\ res.message # <<>>, AnswerPart(res.message))
           ELSE speakText(r.tts, CaughtText(res))
        /\ UNCHANGED <<input, image, nSends, isTTSEnabled, revealedExplanations,
                       audioVars, micVars, copyVars, now, pageVars>>

(* -------------------------------- retry -------------------------------- *)
\* [...messages].reverse().find(msg => msg.role === 'user'), as an index (0: none)
LastUserIndex(msgs) ==
    LET us == {k \in 1..Len(msgs) : msgs[k].role = "user"}
    IN  IF us = {} THEN 0 ELSE CHOOSE k \in us : \A j \in us : k >= j

\* prev.filter(msg => msg.id !== id)
FilterOut(prev, id) == SelectSeq(prev, LAMBDA msg : msg.id # id)

\* the value restored into the text field
RetryText(msgs, i) == msgs[LastUserIndex(msgs)].text

Retry_ForgetsRevealed(i) ==
    /\ i \in 1..Len(messages)
    /\ RenderDecode(messages[i].text).isError
    /\ IF LastUserIndex(messages) # 0
       THEN /\ messages' = FilterOut(messages, messages[i].id)
            /\ input' = RetryText(messages, i)
            /\ image' = messages[LastUserIndex(messages)].image
       ELSE UNCHANGED <<messages, input, image>>
    /\ revealedExplanations' = {}
    /\ UNCHANGED <<loading, requests, nSends, isTTSEnabled, speech, nSpeech,
                   audioVars, micVars, copyVars, now, pageVars>>

\* onClick of "Try Re-sending", rendered on message i when isError
Retry(i) ==
    /\ i \in 1..Len(messages)
    /\ RenderDecode(messages[i].text).isError
    /\ IF LastUserIndex(messages) # 0
       THEN /\ messages' = FilterOut(messages, messages[i].id)
            /\ input' = RetryText(messages, i)
            /\ image' = messages[LastUserIndex(messages)].image
       ELSE UNCHANGED <<messages, input, image>>
    /\ UNCHANGED <<loading, requests, nSends, voiceVars, audioVars, micVars, copyVars, now, pageVars>>

(* ----------------------------- environment ----------------------------- *)
\* onChange of the text field
TypeInput(t) ==
    /\ input' = t
    /\ UNCHANGED <<messages, image, loading, requests, nSends,
                   voiceVars, audioVars, micVars, copyVars, now, pageVars>>

\* reader.onloadend of handleImageUpload
PickImage(i) ==
    /\ image' = i
    /\ UNCHANGED <<messages, input, loading, requests, nSends,
                   voiceVars, audioVars, micVars, copyVars, now, pageVars>>

\* onClick of the preview's remove button
ClearImage ==
    /\ image # NoImage
    /\ image' = NoImage
    /\ UNCHANGED <<messages, input, loading, requests, nSends,
                   voiceVars, audioVars, micVars, copyVars, now, pageVars>>

\* the millisecond clock advances
Tick ==
    /\ now < MaxClock
    /\ now' = now + 1
    /\ UNCHANGED <<chatVars, voiceVars, audioVars, micVars, copyVars, pageVars>>

(* --------------------------- speech capture ---------------------------- *)
\* a recognition result event: results[i] is the transcript of the first
\* alternative of result i (0-based, as event.results[i][0].transcript)
RecognitionEvents ==
    { [resultIndex |-> 0, results |-> << <<"q1">> >>],
      [resultIndex |-> 1, results |-> << <<"q0">>, <<"q1">> >>] }

\* for (let i = event.resultIndex; i < event.results.length; i++) transcript += ...
RECURSIVE TranscriptFrom(_, _)
TranscriptFrom(results, i) ==
    IF i >= Len(results) THEN <<>>
    ELSE results[i + 1] \o TranscriptFrom(results, i + 1)

\* recognitionRef.current.stop(): a started engine winds down, its end event
\* is then pending
StopRecognition(engine) == IF engine = "active" THEN "stopping" ELSE engine

\* onClick of the microphone button: without SpeechRecognition it alerts and
\* returns; start() on an engine that has not ended yet throws
\* InvalidStateError, after setInput('') and before setIsListening(true)
toggleListening ==
    /\ IF recognition = "unsupported"
       THEN /\ alerts < MaxAlerts
            /\ alerts' = alerts + 1
            /\ UNCHANGED <<input, isListening, recognition>>
       ELSE /\ IF isListening
               THEN /\ recognition' = StopRecognition(recognition)
                    /\ UNCHANGED <<input, isListening>>
               ELSE /\ input' = <<>>
                    /\ IF recognition = "idle"
                       THEN recognition' = "active" /\ isListening' = TRUE
                       ELSE UNCHANGED <<recognition, isListening>>
            /\ UNCHANGED alerts
    /\ UNCHANGED <<messages, image, loading, requests, nSends,
                   voiceVars, audioVars, copyVars, now, lifeVars, paperVars>>

RecognitionResult_Appends(event) ==
    /\ recognition \in {"active", "stopping"}
    /\ input' = input \o TranscriptFrom(event.results, event.resultIndex)
    /\ UNCHANGED <<messages, image, loading, requests, nSends,
                   voiceVars, audioVars, micVars, copyVars, now, pageVars>>

\* recognition.onresult: results also arrive while the engine winds down
RecognitionResult(event) ==
    /\ recognition \in {"active", "stopping"}
    /\ input' = TranscriptFrom(event.results, event.resultIndex)
    /\ UNCHANGED <<messages, image, loading, requests, nSends,
                   voiceVars, audioVars, micVars, copyVars, now, pageVars>>

\* recognition.onerror: the engine gives up, its end event follows
RecognitionError ==
    /\ recognition \in {"active", "stopping"}
    /\ isListening' = FALSE
    /\ recognition' = "stopping"
    /\ UNCHANGED <<chatVars, voiceVars, audioVars, copyVars, now, pageVars>>

RecognitionEnd_KeepsListening ==
    /\ recognition \in {"active", "stopping"}
    /\ recognition' = "idle"
    /\ UNCHANGED <<isListening, chatVars, voiceVars, audioVars, copyVars, now, pageVars>>

\* recognition.onend
RecognitionEnd ==
    /\ recognition \in {"active", "stopping"}
    /\ isListening' = FALSE
    /\ recognition' = "idle"
    /\ UNCHANGED <<chatVars, voiceVars, audioVars, copyVars, now, pageVars>>

(* ------------------------------ playback ------------------------------- *)
\* what generateSpeech resolves with: null, or base64 data that is 16-bit
\* PCM ("pcm"), not base64 at all ("malformed": atob throws) or of odd byte
\* length ("odd": new Int16Array throws)
NoAudio == "null"
AudioData == {"pcm", "malformed", "odd"}

\* decodeBase64 + decodeAudioData(audioData, ctx, 24000, 1) throw on this data
DecodeThrows_OddTolerated(data) == data = "malformed"

DecodeThrows(data) == data # "pcm"

\* source.stop() inside try/catch: a started source stops, its ended event
\* is then pending; on any other source nothing changes
StopSource(srcs, n) ==
    IF n # 0 /\ srcs[n] = "playing" THEN [srcs EXCEPT ![n] = "stopped"] ELSE srcs

Playing(srcs) == {n \in 1..Len(srcs) : srcs[n] = "playing"}

\* playAudio from `setIsPaused(false)` on, the context being `ctx` by now
PlayBody(ctx, data) ==
    /\ audioContextRef' = ctx
    /\ isPaused' = FALSE
    /\ IF DecodeThrows(data)
       THEN /\ isSpeaking' = FALSE
            /\ UNCHANGED <<currentSourceRef, sources>>
       ELSE /\ sources' = Append(StopSource(sources, currentSourceRef), "playing")
            /\ isSpeaking' = TRUE
            /\ currentSourceRef' = Len(sources) + 1

\* generateSpeech settles inside speakText: with nothing (null, or a caught
\* failure) speakText ends; with data playAudio runs up to its first await
SpeechSettles(sp, data) ==
    /\ sp \in speech
    /\ speech' = speech \ {sp}
    /\ IF data = NoAudio
       THEN UNCHANGED <<audioVars>>
       ELSE LET ctx == IF audioContextRef = "none" THEN "running" ELSE audioContextRef
            IN  IF ctx = "suspended"
                THEN /\ plays' = plays \cup {[n |-> sp.n, data |-> data]}
                     /\ UNCHANGED <<isSpeaking, isPaused, audioContextRef,
                                    currentSourceRef, sources, ctxOps>>
                ELSE /\ PlayBody(ctx, data)
                     /\ UNCHANGED <<plays, ctxOps>>
    /\ UNCHANGED <<chatVars, isTTSEnabled, nSpeech, revealedExplanations, micVars, copyVars, now, pageVars>>

\* what a generateSpeech call meets: getAIClient() throws ("noclient"), or
\* generateContent resolves with inline audio data ("audio"), resolves with
\* none ("none") or rejects ("throw")
SpeechOutcomes ==
    {[k |-> "audio", data |-> d] : d \in AudioData} \cup
    {[k |-> "none"], [k |-> "throw"], [k |-> "noclient"]}

\* generateSpeech(text): `threw` when the promise rejects, else `value` is
\* what it resolves with; getAIClient() is called before the try
generateSpeech(text, raw) ==
    IF raw.k = "noclient" THEN [threw |-> TRUE, value |-> NoAudio]
    ELSE [threw |-> FALSE, value |-> IF raw.k = "audio" THEN raw.data ELSE NoAudio]

\* the generateSpeech call of speakText settles: a rejection ends speakText
\* (nothing awaits or catches it), a value continues it
SpeechReturns(sp, raw) ==
    LET res == generateSpeech(sp.text, raw)
    IN  IF res.threw
        THEN /\ sp \in speech
             /\ speech' = speech \ {sp}
             /\ UNCHANGED <<audioVars, chatVars, isTTSEnabled, nSpeech,
                            revealedExplanations, micVars, copyVars, now, pageVars>>
        ELSE SpeechSettles(sp, res.value)

\* `await ctx.resume()` of playAudio resolves: the context runs again
PlayResumed(p) ==
    /\ p \in plays
    /\ plays' = plays \ {p}
    /\ PlayBody("running", p.data)
    /\ UNCHANGED <<ctxOps, chatVars, voiceVars, micVars, copyVars, now, pageVars>>

\* the ended event of source n is dispatched (it reached the end of its
\* buffer while the context ran, or stop() was called on it): source.onended
SourceEnded(n) ==
    /\ n \in 1..Len(sources)
    /\ \/ sources[n] = "stopped"
       \/ sources[n] = "playing" /\ audioContextRef = "running"
    /\ sources' = [sources EXCEPT ![n] = "ended"]
    /\ isSpeaking' = FALSE
    /\ isPaused' = FALSE
    /\ currentSourceRef' = 0
    /\ UNCHANGED <<audioContextRef, plays, ctxOps, chatVars, voiceVars, micVars, copyVars, now, pageVars>>

\* onClick of the voice button
toggleTTS ==
    /\ sources' = IF isTTSEnabled THEN StopSource(sources, currentSourceRef) ELSE sources
    /\ isTTSEnabled' = ~isTTSEnabled
    /\ isPaused' = FALSE
    /\ UNCHANGED <<isSpeaking, audioContextRef, currentSourceRef, plays, ctxOps,
                   chatVars, speech, nSpeech, revealedExplanations, micVars, copyVars, now, pageVars>>

togglePauseResume_AlwaysSuspends ==
    /\ isSpeaking /\ isTTSEnabled
    /\ audioContextRef # "none"
    /\ ctxOps' = ctxOps \cup {"suspend"}
    /\ UNCHANGED <<isSpeaking, isPaused, audioContextRef, currentSourceRef, sources,
                   plays, chatVars, voiceVars, micVars, copyVars, now, pageVars>>

\* onClick of the pause/resume button (rendered when isSpeaking && isTTSEnabled),
\* up to its await
togglePauseResume ==
    /\ isSpeaking /\ isTTSEnabled
    /\ audioContextRef # "none"
    /\ ctxOps' = IF audioContextRef = "running" THEN ctxOps \cup {"suspend"}
                 ELSE IF audioContextRef = "suspended" THEN ctxOps \cup {"resume"}
                 ELSE ctxOps
    /\ UNCHANGED <<isSpeaking, isPaused, audioContextRef, currentSourceRef, sources,
                   plays, chatVars, voiceVars, micVars, copyVars, now, pageVars>>

\* the awaited suspend() or resume() resolves; togglePauseResume sets isPaused
PauseSettles(o) ==
    /\ o \in ctxOps
    /\ ctxOps' = ctxOps \ {o}
    /\ audioContextRef' = IF o = "suspend" THEN "suspended" ELSE "running"
    /\ isPaused' = (o = "suspend")
    /\ UNCHANGED <<isSpeaking, currentSourceRef, sources, plays,
                   chatVars, voiceVars, micVars, copyVars, now, pageVars>>

(* ------------------------- reveal and replay --------------------------- *)
\* the Replay Audio button is rendered on model messages that are no errors
CanReplay(m) == m.role = "model" /\ ~RenderDecode(m.text).isError

\* the Reveal Explanation button: explanation && role === 'model' && !isError
CanReveal(m) ==
    /\ CanReplay(m)
    /\ SplitPart1(RenderDecode(m.text).displayContent) \notin {Undefined, <<>>}
    /\ m.id \notin revealedExplanations

\* onClick of Replay Audio: speakText(displayContent)
Replay(i) ==
    /\ i \in 1..Len(messages)
    /\ CanReplay(messages[i])
    /\ speakText(isTTSEnabled, RenderDecode(messages[i].text).displayContent)
    /\ UNCHANGED <<chatVars, isTTSEnabled, revealedExplanations, audioVars, micVars, copyVars, now, pageVars>>

AddRevealed_Toggle(prev, msgId) ==
    IF msgId \in prev THEN prev \ {msgId} ELSE prev \cup {msgId}

\* prev => { const next = new Set(prev); next.add(msgId); return next; }
AddRevealed(prev, msgId) == prev \cup {msgId}

\* handleReveal(m.id, explanation)
handleReveal(i) ==
    /\ i \in 1..Len(messages)
    /\ CanReveal(messages[i])
    /\ revealedExplanations' = AddRevealed(revealedExplanations, messages[i].id)
    /\ speakText(isTTSEnabled,
                 REVEAL_PREFIX \o SplitPart1(RenderDecode(messages[i].text).displayContent))
    /\ UNCHANGED <<chatVars, isTTSEnabled, audioVars, micVars, copyVars, now, pageVars>>

(* -------------------------------- copy --------------------------------- *)
\* text.split(EXPLANATION_MARKER)[0].trim()
CopyText(text) == trim(SplitPart0(text))

\* handleCopy(m.id, displayContent), from the Copy Answer button (rendered on
\* model messages that are no errors), up to the clipboard promise
handleCopy(i) ==
    /\ i \in 1..Len(messages)
    /\ CanReplay(messages[i])
    /\ nCopies < MaxCopies
    /\ nCopies' = nCopies + 1
    /\ copyWrites' = copyWrites \cup
          {[n |-> nCopies + 1, id |-> messages[i].id,
            text |-> CopyText(RenderDecode(messages[i].text).displayContent)]}
    /\ UNCHANGED <<copiedId, copyTimers, chatVars, voiceVars, audioVars, micVars, now, pageVars>>

\* writeText settles: fulfilled, the .then callback marks the message and
\* arms the 2 s timer; rejected, nothing handles it
CopySettles(w, fulfilled) ==
    /\ w \in copyWrites
    /\ copyWrites' = copyWrites \ {w}
    /\ IF fulfilled
       THEN copiedId' = w.id /\ copyTimers' = copyTimers \cup {w.n}
       ELSE UNCHANGED <<copiedId, copyTimers>>
    /\ UNCHANGED <<nCopies, chatVars, voiceVars, audioVars, micVars, now, pageVars>>

\* the timer fires: setCopiedId(null)
CopyTimer(n) ==
    /\ n \in copyTimers
    /\ copyTimers' = copyTimers \ {n}
    /\ copiedId' = NoCopied
    /\ UNCHANGED <<copyWrites, nCopies, chatVars, voiceVars, audioVars, micVars, now, pageVars>>

(* ------------------------------- unmount ------------------------------- *)
\* the actions above are those of a mounted TutorChat; the ones below are its
\* unmount cleanup and what its pending callbacks do afterwards, when React
\* ignores every state setter while the refs and the closures live on

\* audioContextRef.current.close()
CloseContext(ctx) == IF ctx = "none" THEN "none" ELSE "closed"

Unmount_FaultAborts ==
    /\ mounted
    /\ mounted' = FALSE
    /\ sources' = StopSource(sources, currentSourceRef)
    /\ IF currentSourceRef # 0 /\ sources[currentSourceRef] # "playing"
       THEN UNCHANGED <<audioContextRef, recognition>>
       ELSE /\ audioContextRef' = CloseContext(audioContextRef)
            /\ recognition' = StopRecognition(recognition)
    /\ UNCHANGED <<isSpeaking, isPaused, currentSourceRef, plays, ctxOps, isListening,
                   chatVars, voiceVars, copyVars, now, orphanContexts, alerts, paperVars>>

\* the cleanup of the unmount effect: stop() of the current source inside
\* try/catch, close() of the context, stop() of the recognition
Unmount ==
    /\ mounted
    /\ mounted' = FALSE
    /\ sources' = StopSource(sources, currentSourceRef)
    /\ audioContextRef' = CloseContext(audioContextRef)
    /\ recognition' = StopRecognition(recognition)
    /\ UNCHANGED <<isSpeaking, isPaused, currentSourceRef, plays, ctxOps, isListening,
                   chatVars, voiceVars, copyVars, now, orphanContexts, alerts, paperVars>>

\* the rest of handleSend when its solveQuestion call settles after the
\* unmount: setMessages and setLoading are ignored, speakText still runs
DeliverAfterUnmount(r, online, raw) ==
    LET res == solveQuestion(online, raw)
    IN  /\ ~mounted
        /\ requests' = requests \ {r}
        /\ IF res.ok
           THEN speakText(r.tts /\ res.message # <<>>, AnswerPart(res.message))
           ELSE speakText(r.tts, CaughtText(res))
        /\ UNCHANGED <<messages, input, image, loading, nSends, isTTSEnabled,
                       revealedExplanations, audioVars, micVars, copyVars, now, pageVars>>

\* the rest of speakText when its generateSpeech call settles after the
\* unmount: playAudio makes a new AudioContext when there was none, else uses
\* the closed one, on which createBufferSource either works or throws
\* (`closedThrows`); setIsSpeaking and setIsPaused are ignored
SpeechReturnsAfterUnmount(sp, raw, closedThrows) ==
    LET res == generateSpeech(sp.text, raw)
        ctx == IF audioContextRef = "none" THEN "running" ELSE audioContextRef
    IN  /\ ~mounted
        /\ sp \in speech
        /\ speech' = speech \ {sp}
        /\ IF res.threw \/ res.value = NoAudio
           THEN UNCHANGED <<audioContextRef, currentSourceRef, sources>>
           ELSE /\ audioContextRef' = ctx
                /\ IF DecodeThrows(res.value) \/ (ctx = "closed" /\ closedThrows)
                   THEN /\ sources' = IF DecodeThrows(res.value) THEN sources
                                       ELSE StopSource(sources, currentSourceRef)
                        /\ UNCHANGED currentSourceRef
                   ELSE /\ sources' = Append(StopSource(sources, currentSourceRef),
                                              "playing")
                        /\ currentSourceRef' = Len(sources) + 1
        /\ UNCHANGED <<isSpeaking, isPaused, plays, ctxOps, chatVars, isTTSEnabled,
                       nSpeech, revealedExplanations, micVars, copyVars, now, pageVars>>

\* source.onended after the unmount: only the ref is cleared
SourceEndedAfterUnmount(n) ==
    /\ ~mounted
    /\ n \in 1..Len(sources)
    /\ \/ sources[n] = "stopped"
       \/ sources[n] = "playing" /\ audioContextRef = "running"
    /\ sources' = [sources EXCEPT ![n] = "ended"]
    /\ currentSourceRef' = 0
    /\ UNCHANGED <<isSpeaking, isPaused, audioContextRef, plays, ctxOps, chatVars,
                   voiceVars, micVars, copyVars, now, pageVars>>

\* recognition.onend after the unmount
RecognitionEndAfterUnmount ==
    /\ ~mounted
    /\ recognition \in {"active", "stopping"}
    /\ recognition' = "idle"
    /\ UNCHANGED <<isListening, chatVars, voiceVars, audioVars, copyVars, now, pageVars>>

\* a context that is neither absent nor closed
Open(ctx) == ctx \in {"running", "suspended"}

\* TutorChat is mounted again (a subject is opened) once the callbacks of
\* the unmounted instance have run: a new instance with its own state, refs
\* and recognition; a context the old one left open stays open
Remount ==
    /\ ~mounted
    /\ requests = {} /\ speech = {} /\ plays = {} /\ ctxOps = {}
    /\ copyWrites = {} /\ copyTimers = {}
    /\ recognition = "idle"
    /\ mounted' = TRUE
    /\ orphanContexts' = orphanContexts + (IF Open(audioContextRef) THEN 1 ELSE 0)
    /\ messages' = <<>>
    /\ input' = <<>>
    /\ image' = NoImage
    /\ loading' = FALSE
    /\ isTTSEnabled' = FALSE
    /\ isSpeaking' = FALSE
    /\ isPaused' = FALSE
    /\ isListening' = FALSE
    /\ revealedExplanations' = {}
    /\ audioContextRef' = "none"
    /\ currentSourceRef' = 0
    /\ sources' = <<>>
    /\ copiedId' = NoCopied
    /\ UNCHANGED <<recognition, requests, speech, plays, ctxOps, copyWrites, copyTimers,
                   nCopies, nSends, nSpeech, now, alerts, paperVars>>

(* -------------------------- QuestionDownloader ------------------------- *)
\* `${subject}-${year}`
PaperKey(subject, year) == <<subject, year>>

\* paperCache[key]: the cached text, or nothing (undefined, falsy as '' is)
CacheGet(cache, key) ==
    LET hits == {i \in 1..Len(cache) : cache[i].key = key}
    IN  IF hits = {} THEN <<>> ELSE cache[CHOOSE i \in hits : TRUE].content

\* { ...prev, [key]: content }: an existing key keeps its place, a new one
\* comes last
CachePut(cache, key, content) ==
    IF \E i \in 1..Len(cache) : cache[i].key = key
    THEN [i \in 1..Len(cache) |->
            IF cache[i].key = key THEN [key |-> key, content |-> content] ELSE cache[i]]
    ELSE Append(cache, [key |-> key, content |-> content])

\* Object.keys(paperCache).slice(-3)
RecentKeys(cache) ==
    {cache[i].key : i \in {j \in 1..Len(cache) : j > Len(cache) - 3}}

\* the reader tabs that are clicked (of 'Overview', 'Questions',
\* 'Answers', 'Remarks', lower-cased)
ReadingSections == {"questions"}

\* paperContent && !isGenerating: the online reader is rendered
ReaderShown ==
    /\ downloaderMounted
    /\ ~isGenerating
    /\ CacheGet(paperCache, PaperKey(selectedSubject, selectedYear)) # <<>>

RemoveAt(seq, i) == SubSeq(seq, 1, i - 1) \o SubSeq(seq, i + 1, Len(seq))

\* onClick of a subject button
SelectSubject(s) ==
    /\ downloaderMounted
    /\ selectedSubject' = s
    /\ UNCHANGED <<selectedYear, isGenerating, activeReadingSection, paperCache,
                   generations, downloaderMounted, chatVars, voiceVars, audioVars, micVars, copyVars,
                   now, lifeVars, alerts>>

\* onClick of a year button (disabled while isGenerating), up to its await
handleGenerate(year) ==
    LET key == PaperKey(selectedSubject, year)
    IN  /\ downloaderMounted
        /\ ~isGenerating
        /\ selectedYear' = year
        /\ IF CacheGet(paperCache, key) # <<>>
           THEN /\ activeReadingSection' = "top"
                /\ UNCHANGED <<isGenerating, generations>>
           ELSE /\ Len(generations) < MaxGenerations
                /\ isGenerating' = TRUE
                /\ generations' = Append(generations, [subject |-> selectedSubject,
                                                        year |-> year, key |-> key,
                                                        live |-> TRUE])
                /\ UNCHANGED activeReadingSection
        /\ UNCHANGED <<selectedSubject, paperCache, downloaderMounted, chatVars, voiceVars, audioVars,
                       micVars, copyVars, now, lifeVars, alerts>>

\* the rest of handleGenerate, run when its generatePastPaper call settles;
\* the setters of an instance that was unmounted meanwhile do nothing
GenerateSettles(i, raw) ==
    LET g   == generations[i]
        res == generatePastPaper(g.subject, g.year, raw)
    IN  /\ generations' = RemoveAt(generations, i)
        /\ IF ~g.live
           THEN UNCHANGED <<paperCache, activeReadingSection, isGenerating>>
           ELSE /\ IF res.threw
                   THEN UNCHANGED <<paperCache, activeReadingSection>>
                   ELSE /\ paperCache' = CachePut(paperCache, g.key, res.value)
                        /\ activeReadingSection' = "top"
                /\ isGenerating' = FALSE
        /\ UNCHANGED <<selectedSubject, selectedYear, downloaderMounted, chatVars, voiceVars, audioVars,
                       micVars, copyVars, now, lifeVars, alerts>>

\* onClick of a tab of the reader
scrollToSection(sectionId) ==
    /\ ReaderShown
    /\ activeReadingSection' = sectionId
    /\ UNCHANGED <<selectedSubject, selectedYear, isGenerating, paperCache,
                   generations, downloaderMounted, chatVars, voiceVars, audioVars, micVars, copyVars,
                   now, lifeVars, alerts>>

\* onClick of a "Recently Viewed" entry of the reader
RecentlyViewed(key) ==
    /\ ReaderShown
    /\ key \in RecentKeys(paperCache)
    /\ selectedSubject' = key[1]
    /\ selectedYear' = key[2]
    /\ UNCHANGED <<isGenerating, activeReadingSection, paperCache, generations,
                   downloaderMounted, chatVars, voiceVars, audioVars, micVars, copyVars, now, lifeVars,
                   alerts>>

\* onClick of a navigation tab other than 'mock' while the past papers are
\* shown: setActiveTab(tab) unmounts QuestionDownloader; a pending
\* handleGenerate keeps awaiting its request
LeaveMock ==
    /\ downloaderMounted
    /\ downloaderMounted' = FALSE
    /\ generations' = [i \in 1..Len(generations) |->
                          [generations[i] EXCEPT !.live = FALSE]]
    /\ UNCHANGED <<selectedSubject, selectedYear, isGenerating, activeReadingSection,
                   paperCache, chatVars, voiceVars, audioVars, micVars, copyVars,
                   now, lifeVars, alerts>>

\* onClick of the 'mock' tab or of "Browse Past Papers": setActiveTab('mock')
\* mounts a new QuestionDownloader, every useState starts afresh
OpenMock ==
    /\ ~downloaderMounted
    /\ downloaderMounted' = TRUE
    /\ selectedSubject' = "Mathematics"
    /\ selectedYear' = YEARS[1]
    /\ isGenerating' = FALSE
    /\ activeReadingSection' = "top"
    /\ paperCache' = <<>>
    /\ UNCHANGED <<generations, chatVars, voiceVars, audioVars, micVars, copyVars,
                   now, lifeVars, alerts>>

(* ------------- the conversation: typed questions, voice off ------------- *)
\* the SDK outcomes the conversation is explored with (the device is online):
\* a two-part answer, or a request that times out
ChatOutcomes ==
    { [k |-> "text", text |-> <<"A", "[", "EXPLANATION", "]", "B">>],
      [k |-> "throw", message |-> <<"Deadline", " ", "exceeded">>] }

Next ==
    \/ \E t \in Inputs : TypeInput(t)
    \/ Tick
    \/ SendByButton
    \/ SendByEnter
    \/ \E r \in requests : \E raw \in ChatOutcomes : Deliver(r, TRUE, raw)
    \/ \E i \in 1..Len(messages) : Retry(i)

Spec == Init /\ [][Next]_vars

(* typed sends at one instant, when every solveQuestion call settles *)
NextSending ==
    \/ \E t \in Inputs : TypeInput(t)
    \/ SendByButton
    \/ SendByEnter
    \/ \E r \in requests : \E raw \in ChatOutcomes : Deliver(r, TRUE, raw)
    \/ \E i \in 1..Len(messages) : Retry(i)

\* the solveQuestion call of send s settles
SendSettles(s) ==
    \E r \in requests : \E raw \in ChatOutcomes : r.send = s /\ Deliver(r, TRUE, raw)

FairSpec ==
    Init /\ [][NextSending]_vars /\ \A s \in 1..MaxSends : WF_vars(SendSettles(s))

(* one exchange: text and image inputs, every outcome of solveQuestion *)
NextExchange ==
    \/ \E t \in Inputs : TypeInput(t)
    \/ \E i \in Images : PickImage(i)
    \/ ClearImage
    \/ Tick
    \/ (nSends = 0 /\ SendByButton)
    \/ (nSends = 0 /\ SendByEnter)
    \/ \E r \in requests : \E online \in BOOLEAN : \E raw \in RawOutcomes :
          Deliver(r, online, raw)
    \/ \E i \in 1..Len(messages) : Retry(i)

SpecExchange == Init /\ [][NextExchange]_vars

(* one exchange with voice: its speech, playback, replay and reveal *)
\* the SDK outcomes it is explored with: answers with no, one and two
\* markers, and a request that times out
VoiceOutcomes ==
    ChatOutcomes \cup
    { [k |-> "text", text |-> <<"A">>],
      [k |-> "text", text |-> <<"A", "[", "EXPLANATION", "]", "B",
                                "[", "EXPLANATION", "]", "C">>] }

NextAudio ==
    \/ TypeInput(<<"q1">>)
    \/ (nSends = 0 /\ SendByButton)
    \/ (nSends = 0 /\ SendByEnter)
    \/ \E r \in requests : \E raw \in VoiceOutcomes : Deliver(r, TRUE, raw)
    \/ \E i \in 1..Len(messages) : Replay(i)
    \/ \E i \in 1..Len(messages) : handleReveal(i)
    \/ toggleTTS
    \/ \E sp \in speech : \E data \in AudioData \cup {NoAudio} : SpeechSettles(sp, data)
    \/ \E p \in plays : PlayResumed(p)
    \/ \E n \in 1..Len(sources) : SourceEnded(n)
    \/ togglePauseResume
    \/ \E o \in ctxOps : PauseSettles(o)

SpecAudio == Init /\ [][NextAudio]_vars

(* exchanges one after the other, at one instant, with every control of *)
(* the view: retry, reveal, voice, pause/resume, copy and the microphone *)
NextView ==
    \/ TypeInput(<<"q1">>)
    \/ SendByButton
    \/ \E r \in requests : \E raw \in ChatOutcomes : Deliver(r, TRUE, raw)
    \/ \E i \in 1..Len(messages) : Retry(i)
    \/ \E i \in 1..Len(messages) : handleReveal(i)
    \/ toggleTTS
    \/ \E sp \in speech : SpeechSettles(sp, "pcm")
    \/ \E p \in plays : PlayResumed(p)
    \/ \E n \in 1..Len(sources) : SourceEnded(n)
    \/ togglePauseResume
    \/ \E o \in ctxOps : PauseSettles(o)
    \/ \E i \in 1..Len(messages) : handleCopy(i)
    \/ \E w \in copyWrites : \E fulfilled \in BOOLEAN : CopySettles(w, fulfilled)
    \/ \E n \in copyTimers : CopyTimer(n)
    \/ toggleListening
    \/ \E event \in RecognitionEvents : RecognitionResult(event)
    \/ RecognitionError
    \/ RecognitionEnd

SpecView == Init /\ [][NextView]_vars

(* one exchange with voice and every outcome of generateSpeech *)
NextSpeech ==
    \/ TypeInput(<<"q1">>)
    \/ (nSends = 0 /\ SendByButton)
    \/ \E r \in requests : \E raw \in ChatOutcomes : Deliver(r, TRUE, raw)
    \/ \E i \in 1..Len(messages) : Replay(i)
    \/ toggleTTS
    \/ \E sp \in speech : \E raw \in SpeechOutcomes : SpeechReturns(sp, raw)
    \/ \E p \in plays : PlayResumed(p)
    \/ \E n \in 1..Len(sources) : SourceEnded(n)
    \/ togglePauseResume
    \/ \E o \in ctxOps : PauseSettles(o)

SpecSpeech == Init /\ [][NextSpeech]_vars

(* dictation: the microphone with and without SpeechRecognition, typing *)
(* and one exchange *)
\* the result events of a dictation: also one that reports two results anew
DictationEvents ==
    RecognitionEvents \cup {[resultIndex |-> 0, results |-> << <<"q0">>, <<"q1">> >>]}

InitMic == \E engine \in {"idle", "unsupported"} : InitWith(engine)

NextMic ==
    \/ \E t \in Inputs : TypeInput(t)
    \/ (nSends = 0 /\ SendByButton)
    \/ \E r \in requests : \E raw \in ChatOutcomes : Deliver(r, TRUE, raw)
    \/ toggleListening
    \/ \E event \in DictationEvents : RecognitionResult(event)
    \/ RecognitionError
    \/ RecognitionEnd

SpecMic == InitMic /\ [][NextMic]_vars

\* an engine that was stopped, or that reported an error, dispatches its end
\* event
EngineEnds == recognition = "stopping" /\ RecognitionEnd

FairMic == InitMic /\ [][NextMic]_vars /\ WF_vars(EngineEnds)

(* a dictated question: the microphone is used before the send only, so *)
(* after the send nobody types into, or restarts, the dictation by hand *)
NextDictated ==
    \/ \E t \in Inputs : TypeInput(t)
    \/ (nSends = 0 /\ SendByButton)
    \/ \E r \in requests : \E raw \in ChatOutcomes : Deliver(r, TRUE, raw)
    \/ (nSends = 0 /\ toggleListening)
    \/ \E event \in DictationEvents : RecognitionResult(event)
    \/ RecognitionError
    \/ RecognitionEnd

SpecDictated == InitMic /\ [][NextDictated]_vars

(* one exchange with voice and the microphone, unmounted at any moment *)
TeardownSpeech == {[k |-> "audio", data |-> "pcm"], [k |-> "audio", data |-> "odd"],
                   [k |-> "none"]}

NextTeardown ==
    \/ (mounted /\ TypeInput(<<"q1">>))
    \/ (mounted /\ nSends = 0 /\ SendByButton)
    \/ (mounted /\ \E r \in requests : \E raw \in ChatOutcomes : Deliver(r, TRUE, raw))
    \/ (mounted /\ toggleTTS)
    \/ (mounted /\ \E sp \in speech : \E raw \in TeardownSpeech : SpeechReturns(sp, raw))
    \/ (mounted /\ \E n \in 1..Len(sources) : SourceEnded(n))
    \/ (mounted /\ toggleListening)
    \/ (mounted /\ RecognitionEnd)
    \/ Unmount
    \/ \E r \in requests : \E raw \in ChatOutcomes : DeliverAfterUnmount(r, TRUE, raw)
    \/ \E sp \in speech : \E raw \in TeardownSpeech : \E closedThrows \in BOOLEAN :
          SpeechReturnsAfterUnmount(sp, raw, closedThrows)
    \/ \E n \in 1..Len(sources) : SourceEndedAfterUnmount(n)
    \/ RecognitionEndAfterUnmount

SpecTeardown == Init /\ [][NextTeardown]_vars

(* the same over several mounts of the conversation view *)
NextSessions ==
    \/ NextTeardown
    \/ (mounted /\ SendByButton)
    \/ Remount

SpecSessions == Init /\ [][NextSessions]_vars

(* past papers: subjects, years and every outcome of generatePastPaper *)
NextPapers ==
    \/ \E s \in Subjects : SelectSubject(s)
    \/ \E y \in {YEARS[i] : i \in 1..Len(YEARS)} : handleGenerate(y)
    \/ \E i \in 1..Len(generations) : \E raw \in PaperOutcomes : GenerateSettles(i, raw)
    \/ \E sectionId \in ReadingSections : scrollToSection(sectionId)
    \/ \E key \in RecentKeys(paperCache) : RecentlyViewed(key)

SpecPapers == Init /\ [][NextPapers]_vars

(* past papers while the user also moves between the tabs of the page *)
NextTabs ==
    \/ NextPapers
    \/ LeaveMock
    \/ OpenMock

SpecTabs == Init /\ [][NextTabs]_vars

\* the request of a handleGenerate settles: the SDK resolves or rejects it
GenerationSettles ==
    \E i \in 1..Len(generations) : \E raw \in PaperOutcomes : GenerateSettles(i, raw)

FairTabs == Init /\ [][NextTabs]_vars /\ WF_vars(GenerationSettles)

(* ------------------------------- claims -------------------------------- *)
UserCount(msgs) == Len(SelectSeq(msgs, LAMBDA m : m.role = "user"))

\* C1: while a send's AI request is pending, no step starts another send: no
\* user message is appended and no second solveQuestion call is issued.
C1_OneSendInFlight ==
    [][requests # {} =>
          /\ requests' \subseteq requests
          /\ UserCount(messages') <= UserCount(messages)]_vars

\* C2: from a state whose input is empty or whitespace-only with no pending
\* image, no step accepts a send: no user message is appended, no
\* solveQuestion call is issued and loading does not become true.
C2_BlankSendChangesNothing ==
    [][(trim(input) = <<>> /\ image = NoImage) =>
          /\ nSends' = nSends
          /\ requests' \subseteq requests
          /\ UserCount(messages') <= UserCount(messages)
          /\ (loading' => loading)]_vars

\* a whitespace-only input, typed after an image was picked and cleared again,
\* with the Ask button enabled and no send made yet
C2_Witness ==
    /\ input = <<" ">>
    /\ image = NoImage
    /\ ~AskDisabled
    /\ nSends = 0

C4_LengthPlusTwo ==
    [][\A r \in requests \ requests' :
          (\E k \in 1..Len(messages') :
              messages'[k].send = r.send /\ messages'[k].via = "success") =>
             /\ Len(messages') = r.lenAtSend + 2
             /\ messages'[r.lenAtSend + 1].role = "user"
             /\ messages'[r.lenAtSend + 1].send = r.send
             /\ messages'[r.lenAtSend + 2].role = "model"
             /\ messages'[r.lenAtSend + 2].send = r.send]_vars

\* C4 as amended: the step that invokes a send appends exactly one entry, the
\* user message, at the end; the step that delivers a successful response
\* appends exactly one entry, the model message carrying the response text, at
\* the end and leaves the earlier entries as they were; the transcript is 2
\* longer than at the invocation, the two entries adjacent, when nothing else
\* was appended or removed in between.
C4_DeliveryAppendsAnswer ==
    [][/\ (nSends' = nSends + 1 =>
             /\ Len(messages') = Len(messages) + 1
             /\ SubSeq(messages', 1, Len(messages)) = messages
             /\ messages'[Len(messages')].role = "user"
             /\ messages'[Len(messages')].send = nSends'
             /\ messages'[Len(messages')].text = input
             /\ messages'[Len(messages')].image = image)
       /\ \A r \in requests \ requests' :
            \A k \in 1..Len(messages') :
               (messages'[k].send = r.send /\ messages'[k].via = "success") =>
                  /\ k = Len(messages')
                  /\ Len(messages') = Len(messages) + 1
                  /\ SubSeq(messages', 1, Len(messages)) = messages
                  /\ messages'[k].role = "model"
                  /\ messages'[k].text = messages'[k].res.message
                  /\ ((/\ Len(messages) = r.lenAtSend + 1
                       /\ messages[Len(messages)].send = r.send) =>
                        /\ Len(messages') = r.lenAtSend + 2
                        /\ messages'[k - 1].role = "user"
                        /\ messages'[k - 1].send = r.send)]_vars

\* a delivered two-part answer right after its question, and one that is not
C4_Witness ==
    \E j, l \in 2..Len(messages) :
        /\ messages[j].via = "success"
        /\ messages[j].text = <<"A", "[", "EXPLANATION", "]", "B">>
        /\ messages[j - 1].role = "user"
        /\ messages[j - 1].send = messages[j].send
        /\ messages[l].via = "success"
        /\ messages[l - 1].send # messages[l].send

ClassifiedKinds == {"network", "timeout", "server", "safety"}

\* C5: a message appended by the failure branch is a model message; for a
\* StudyAIError of kind k its text is ERROR_MODE[k] followed by the error's
\* message and the render decodes it to (k, message); any other failure is
\* stored and decoded as kind unknown with the default apology; the delivery
\* of a response appends exactly one message.
C5_ErrorRoundTrip ==
    /\ [](\A i \in 1..Len(messages) :
            messages[i].via = "failure" =>
               LET m == messages[i]
                   d == RenderDecode(m.text)
               IN  /\ m.role = "model"
                   /\ d.isError
                   /\ IF m.res.classified
                      THEN /\ m.res.type \in ClassifiedKinds
                           /\ m.text = <<"ERROR_MODE", "[", m.res.type, "]">> \o m.res.message
                           /\ d.errorType = <<m.res.type>>
                           /\ d.displayContent = m.res.message
                      ELSE /\ m.text = <<"ERROR_MODE", "[", "unknown", "]">> \o DEFAULT_ERROR_TEXT
                           /\ d.errorType = <<"unknown">>
                           /\ d.displayContent = DEFAULT_ERROR_TEXT)
    /\ [][requests' # requests /\ requests' \subseteq requests =>
             /\ Len(messages') = Len(messages) + 1
             /\ SubSeq(messages', 1, Len(messages)) = messages]_vars

\* a timeout failure in the transcript, decoded as timeout
C5_Witness ==
    \E i \in 1..Len(messages) :
        /\ messages[i].via = "failure"
        /\ messages[i].res.type = "timeout"
        /\ RenderDecode(messages[i].text).errorType = <<"timeout">>
        /\ RenderDecode(messages[i].text).displayContent = MSG_TIMEOUT

\* the messages of msgs that a step to msgs2 removed
Removed(msgs, msgs2) ==
    {i \in 1..Len(msgs) : \A k \in 1..Len(msgs2) : msgs2[k] # msgs[i]}

\* C6: a retry that removes an error message restores the text and image of
\* the user message whose send produced that error.
C6_RetryRestoresTrigger ==
    [][Len(messages') < Len(messages) =>
          \A i \in Removed(messages, messages') :
             messages[i].via = "failure" =>
                \A k \in 1..Len(messages) :
                   (messages[k].role = "user" /\ messages[k].send = messages[i].send) =>
                      (input' = messages[k].text /\ image' = messages[k].image)]_vars

\* C7: a retry removes exactly one message, keeps the others in order, and
\* issues no solveQuestion call.
C7_RetryRemovesOne ==
    [][(\E i \in Removed(messages, messages') : messages[i].via = "failure") =>
          /\ Len(messages') = Len(messages) - 1
          /\ \E i \in 1..Len(messages) :
                messages' = SubSeq(messages, 1, i - 1) \o SubSeq(messages, i + 1, Len(messages))
          /\ requests' = requests
          /\ nSends' = nSends]_vars

\* C8: every message the view renders as an error (and offers retry on) is a
\* model message appended by the failure branch of a send.
C8_ErrorTagOnlyFromFailure ==
    \A i \in 1..Len(messages) :
        RenderDecode(messages[i].text).isError =>
           (messages[i].role = "model" /\ messages[i].via = "failure")

\* C9: at most one playback source is started and not yet stopped, and a
\* step that starts a source while another is playing stops that one.
C9_OneActiveSource ==
    /\ [](Cardinality(Playing(sources)) <= 1)
    /\ [][Len(sources') > Len(sources) =>
             \A n \in Playing(sources) : sources'[n] # "playing"]_vars

\* C10: a voice toggle taken while voice is enabled leaves no source playing.
C10_ToggleOffStopsPlayback ==
    [][(isTTSEnabled /\ ~isTTSEnabled') => Playing(sources') = {}]_vars

\* C11: no playback source is started while voice is disabled: a step that
\* creates a source is taken with isTTSEnabled true.
C11_NoSourceWhileVoiceOff ==
    [][Len(sources') > Len(sources) => isTTSEnabled]_vars

\* C12: when a send's response is delivered while voice is enabled, the
\* delivery step issues a speech request, whatever voice was at the send.
C12_SpeaksIfVoiceOnAtDelivery ==
    [][(requests' # requests /\ requests' \subseteq requests /\ isTTSEnabled) =>
          nSpeech' = nSpeech + 1]_vars

\* C13: the speech request a successful delivery issues carries exactly the
\* part of the response before its first marker, so nothing of the
\* explanation; with voice on at the send it issues exactly one; the step
\* that accepts a send requests the acknowledgment only.
C13_SendSpeaksAnswerOnly ==
    [][/\ (nSends' = nSends + 1 =>
             \A sp \in speech' \ speech : sp.text = ACK_TEXT)
       /\ \A r \in requests \ requests' :
            LET m == messages'[Len(messages')]
                new == speech' \ speech
            IN  m.via = "success" =>
                  /\ Cardinality(new) = IF r.tts THEN 1 ELSE 0
                  /\ \A sp \in new :
                        /\ IndexOf(sp.text, EXPLANATION_MARKER) = 0
                        /\ \E k \in 0..Len(m.text) :
                              /\ sp.text = SubSeq(m.text, 1, k)
                              /\ \/ k = Len(m.text)
                                 \/ StartsWithAt(m.text, EXPLANATION_MARKER, k + 1)]_vars

\* the answer part of a response with two markers is waiting to be spoken
C13_Witness ==
    /\ \E i \in 1..Len(messages) :
          /\ messages[i].via = "success"
          /\ messages[i].text = <<"A", "[", "EXPLANATION", "]", "B",
                                  "[", "EXPLANATION", "]", "C">>
    /\ \E sp \in speech : sp.text = <<"A">>

\* C14: last writer wins by request order: when every speech request made so
\* far has resolved with playable audio and a step starts the source of the
\* last one to resolve, the utterance it starts is the one requested last.
C14_LastRequestedPlaysLast ==
    [][(/\ Len(sources') > Len(sources)
        /\ Len(sources') = nSpeech
        /\ speech' = {} /\ plays' = {}) =>
          /\ \A sp \in speech \ speech' : sp.n = nSpeech
          /\ \A p \in plays \ plays' : p.n = nSpeech]_vars

\* C15: the delivery of a pending AI request can append its model message
\* whatever the state of the speech requests and of playback; a step in which
\* a speech request settles, a playback is resumed or a source changes leaves
\* the transcript as it is; the step that accepts a send issues its AI request.
C15_TranscriptIndependentOfSpeech ==
    /\ [](\A r \in requests : \A raw \in VoiceOutcomes :
            (r.tts => nSpeech < MaxSpeech) => ENABLED Deliver(r, TRUE, raw))
    /\ [][((speech' # speech /\ speech' \subseteq speech)
            \/ plays' # plays \/ sources' # sources) => messages' = messages]_vars
    /\ [][nSends' = nSends + 1 =>
             \E r \in requests' \ requests : r.send = nSends']_vars

\* an answer in the transcript while the acknowledgment's speech request of
\* its send is still pending
C15_Witness ==
    /\ \E i \in 1..Len(messages) : messages[i].via = "success"
    /\ \E sp \in speech : sp.text = ACK_TEXT /\ sp.n = 1

\* C16: provided its AI call settles, an accepted send eventually leaves the
\* pending state and loading eventually returns to false; the step in which
\* it does so appends exactly one model message of that send, an answer or an
\* error-tagged message, and sets loading to false.
C16_SendCompletes ==
    /\ \A s \in 1..MaxSends :
          (\E r \in requests : r.send = s) ~> (\A r \in requests : r.send # s)
    /\ loading ~> ~loading
    /\ [][\A r \in requests \ requests' :
             LET m == messages'[Len(messages')]
             IN  /\ Len(messages') = Len(messages) + 1
                 /\ SubSeq(messages', 1, Len(messages)) = messages
                 /\ m.role = "model" /\ m.send = r.send
                 /\ m.via \in {"success", "failure"}
                 /\ (m.via = "failure" <=> RenderDecode(m.text).isError)
                 /\ ~loading'
                 /\ \A q \in requests' : q.send # r.send]_vars

\* two sends have completed, one with an answer and one with an error, and
\* the view is idle again
C16_Witness ==
    /\ requests = {} /\ ~loading /\ nSends = 2
    /\ \E i, j \in 1..Len(messages) :
          /\ messages[i].via = "success"
          /\ messages[j].via = "failure"
          /\ messages[i].send # messages[j].send

\* C17: the step that accepts a send appends a user message holding the
\* input text and the pending image of the state it is taken in, and leaves
\* the input empty and no image pending.
C17_SendTakesInputAndClears ==
    [][nSends' = nSends + 1 =>
          LET m == messages'[Len(messages')]
          IN  /\ Len(messages') = Len(messages) + 1
              /\ m.role = "user"
              /\ m.text = input
              /\ m.image = image
              /\ input' = <<>>
              /\ image' = NoImage]_vars

\* a question sent with an image: the message holds both, the fields are clear
C17_Witness ==
    /\ requests # {}
    /\ input = <<>> /\ image = NoImage
    /\ messages # <<>>
    /\ messages[Len(messages)].role = "user"
    /\ messages[Len(messages)].text = <<"q1">>
    /\ messages[Len(messages)].image \in Images

\* C18: reveal is idempotent: a step that changes the revealed set is a
\* reveal of some message id, leaves the transcript as it is, and a second
\* reveal of that id in the state reached would leave the set as it is.
C18_RevealIdempotent ==
    [][revealedExplanations' # revealedExplanations =>
          /\ messages' = messages
          /\ \E i \in 1..Len(messages) :
                /\ revealedExplanations' =
                      AddRevealed(revealedExplanations, messages[i].id)
                /\ AddRevealed(revealedExplanations', messages[i].id) =
                      revealedExplanations']_vars

\* an explanation has been revealed with voice on
C18_Witness ==
    /\ \E i \in 1..Len(messages) :
          /\ messages[i].id \in revealedExplanations
          /\ messages[i].via = "success"
    /\ \E sp \in speech : StartsWith(sp.text, REVEAL_PREFIX)

\* C19: no step removes an id from the revealed set, and a step that adds
\* one leaves the transcript as it is.
C19_RevealedOnlyGrows ==
    [][/\ revealedExplanations \subseteq revealedExplanations'
       /\ (revealedExplanations' # revealedExplanations =>
             messages' = messages)]_vars

\* an explanation was revealed, then a retry removed model messages (both
\* sends were delivered and only the questions are left), an answer was
\* copied, voice was switched off with the playback paused, and the
\* microphone is listening: the revealed id is still in the set
C19_Witness ==
    /\ revealedExplanations # {}
    /\ nSends = 2 /\ requests = {}
    /\ Len(messages) = 2
    /\ copiedId # NoCopied
    /\ ~isTTSEnabled /\ audioContextRef = "suspended"
    /\ isListening

\* C20: the message of a send whose solveQuestion call was made offline is
\* the failure of a StudyAIError of kind network, rendered as a network
\* error, and no remote generation request was issued for it.
C20_OfflineFailsFast ==
    \A i \in 1..Len(messages) :
        (messages[i].role = "model" /\ ~messages[i].res.online) =>
           /\ messages[i].via = "failure"
           /\ messages[i].res.classified
           /\ messages[i].res.type = "network"
           /\ ~messages[i].res.requested
           /\ RenderDecode(messages[i].text).errorType = <<"network">>

\* the lower-cased description holds the word, or the words in a row
Mentions(description, words) ==
    \E i \in 1..Len(description) :
        /\ i + Len(words) - 1 <= Len(description)
        /\ \A k \in 1..Len(words) : LowerToken(description[i + k - 1]) = words[k]

\* C21: the failure of a solveQuestion call whose generation request was
\* issued is a StudyAIError whose kind and message follow from the outcome
\* alone: for a rejection, in priority order, network if the description
\* mentions fetch, network or "failed to execute", else timeout for deadline,
\* timeout or exceeded, else server (capacity) for 429, quota or "too many
\* requests", else server (generic); for an empty response safety when the
\* finish reason is SAFETY and server otherwise, passed through the catch
\* block as it is; the kind is never unknown.
C21_ClassificationByPriority ==
    \A i \in 1..Len(messages) :
        (messages[i].role = "model" /\ messages[i].res.requested
            /\ messages[i].res.raw.k # "text") =>
           LET res == messages[i].res
               d == res.raw.message
               net == \/ Mentions(d, <<"fetch">>) \/ Mentions(d, <<"network">>)
                      \/ Mentions(d, <<"failed", " ", "to", " ", "execute">>)
               slow == \/ Mentions(d, <<"deadline">>) \/ Mentions(d, <<"timeout">>)
                       \/ Mentions(d, <<"exceeded">>)
               busy == \/ Mentions(d, <<"429">>) \/ Mentions(d, <<"quota">>)
                       \/ Mentions(d, <<"too", " ", "many", " ", "requests">>)
           IN  /\ ~res.ok /\ res.classified
               /\ res.type \in ClassifiedKinds
               /\ messages[i].via = "failure"
               /\ RenderDecode(messages[i].text).errorType = <<res.type>>
               /\ IF res.raw.k = "empty"
                  THEN IF res.raw.finishReason = "SAFETY"
                       THEN res.type = "safety" /\ res.message = MSG_SAFETY
                       ELSE res.type = "server" /\ res.message = MSG_EMPTY
                  ELSE IF net THEN res.type = "network" /\ res.message = MSG_NETWORK
                  ELSE IF slow THEN res.type = "timeout" /\ res.message = MSG_TIMEOUT
                  ELSE IF busy THEN res.type = "server" /\ res.message = MSG_CAPACITY
                  ELSE res.type = "server" /\ res.message = MSG_GENERIC

\* a rejection that mentions both a network and a timeout word was shown as
\* a network error
C21_Witness ==
    \E i \in 1..Len(messages) :
        /\ messages[i].via = "failure"
        /\ messages[i].res.raw = [k |-> "throw", message |-> <<"Network", " ", "Timeout">>]
        /\ RenderDecode(messages[i].text).errorType = <<"network">>

\* C22: generatePastPaper never throws: whenever a call of it settles, on a
\* failure of the generation call or an empty response text as on a paper, it
\* has resolved with a non-empty string
C22_PastPaperNeverThrows ==
    [][\A i \in 1..Len(generations) : \A raw \in PaperOutcomes :
          GenerateSettles(i, raw) =>
              LET res == generatePastPaper(generations[i].subject, generations[i].year, raw)
              IN  ~res.threw /\ res.value # <<>>]_vars

\* C23: when a generateSpeech call fails or yields no audio it resolves with
\* null instead of rejecting, and the speakText that awaited it starts no
\* playback and leaves isSpeaking, isPaused, the playback handle and the
\* transcript as they were
C23_NoAudioIsSilent ==
    [][\A sp \in speech : \A raw \in SpeechOutcomes :
          (raw.k # "audio" /\ SpeechReturns(sp, raw)) =>
              /\ ~generateSpeech(sp.text, raw).threw
              /\ generateSpeech(sp.text, raw).value = NoAudio
              /\ UNCHANGED <<isSpeaking, isPaused, currentSourceRef, sources, plays,
                             messages>>]_vars

\* C24: a playAudio whose data is not base64, or has an odd number of bytes,
\* creates no source and keeps the playback handle, sets isSpeaking and
\* isPaused to false and leaves the transcript unchanged; it ends there, in
\* its own catch block
C24_DecodeFaultAbortsPlayback ==
    [][LET Aborted == /\ sources' = sources
                      /\ currentSourceRef' = currentSourceRef
                      /\ isSpeaking' = FALSE
                      /\ isPaused' = FALSE
                      /\ messages' = messages
                      /\ plays' \subseteq plays
       IN  /\ \A sp \in speech : \A data \in {"malformed", "odd"} :
                (audioContextRef # "suspended" /\ SpeechSettles(sp, data)) => Aborted
           /\ \A p \in plays :
                (p.data \in {"malformed", "odd"} /\ PlayResumed(p)) => Aborted]_vars

\* a playback was aborted while an earlier source was playing: the source is
\* still the handle and still plays, and nothing is shown as speaking
C24_Witness ==
    /\ ~isSpeaking
    /\ ~isPaused
    /\ currentSourceRef # 0
    /\ sources[currentSourceRef] = "playing"
    /\ Len(sources) = 1
    /\ nSpeech = 2
    /\ speech = {}
    /\ plays = {}

\* C25: pause/resume does nothing when there is no AudioContext yet or nothing
\* is speaking; otherwise it calls suspend() on a running context and resume()
\* on a suspended one and changes nothing else until that call settles, and
\* when it settles isPaused is true exactly if the context is suspended
C25_PauseResume ==
    /\ []((audioContextRef = "none" \/ ~isSpeaking) => ~ENABLED togglePauseResume)
    /\ [][/\ (ctxOps \subseteq ctxOps' /\ ctxOps' # ctxOps) =>
               (/\ isSpeaking /\ audioContextRef # "none"
                /\ ctxOps' \ ctxOps =
                      {IF audioContextRef = "running" THEN "suspend" ELSE "resume"}
                /\ UNCHANGED <<isPaused, isSpeaking, audioContextRef, currentSourceRef,
                               sources>>)
          /\ (ctxOps' \subseteq ctxOps /\ ctxOps' # ctxOps) =>
               (/\ audioContextRef' =
                      (IF "suspend" \in ctxOps \ ctxOps' THEN "suspended" ELSE "running")
                /\ isPaused' = (audioContextRef' = "suspended"))]_vars

\* a pause has completed during a playback, and a resume after it
C25_Witness ==
    /\ isSpeaking
    /\ isPaused
    /\ audioContextRef = "suspended"
    /\ ctxOps = {}
    /\ currentSourceRef # 0
    /\ sources[currentSourceRef] = "playing"

\* C26: speech capture is idle or listening (isListening): it starts listening
\* only by a toggle made while idle, which starts the engine; it stops
\* listening only in the engine's end or error handler; a toggle made while
\* listening only stops the engine and never starts it; and once the engine
\* was stopped or reported an error, capture is eventually idle
C26_ListeningStateMachine ==
    /\ [](isListening => recognition \in {"active", "stopping"})
    /\ [][/\ (~isListening /\ isListening') =>
               (toggleListening /\ recognition = "idle" /\ recognition' = "active")
          /\ (isListening /\ ~isListening') => (RecognitionError \/ RecognitionEnd)
          /\ (isListening /\ toggleListening) =>
               (isListening' /\ recognition' = StopRecognition(recognition)
                /\ recognition' # "active")]_vars
    /\ ((recognition = "stopping") ~> ~isListening)

\* stop() was called by a toggle made while listening; the end event is due
C26_Witness ==
    /\ isListening
    /\ recognition = "stopping"

\* C27: a toggle made while not listening, where recognition is supported,
\* clears the input and is listening when it returns; where recognition is
\* not supported a toggle only raises the alert and changes neither the input
\* nor isListening
C27_StartClearsInputAndListens ==
    [][/\ (recognition # "unsupported" /\ ~isListening /\ toggleListening) =>
            (input' = <<>> /\ isListening')
       /\ (recognition = "unsupported" /\ toggleListening) =>
            (alerts' = alerts + 1 /\ UNCHANGED <<input, isListening, recognition>>)]_vars

\* the transcripts results[from..to] (1-based) one after the other
RECURSIVE Joined(_, _, _)
Joined(results, from, to) ==
    IF to < from THEN <<>> ELSE Joined(results, from, to - 1) \o results[to]

\* C28: after a recognition result event the input is the first-alternative
\* transcripts of the results from the event's resultIndex to the last, one
\* after the other, whatever the input was before
C28_ResultOverwritesInput ==
    [][\A event \in DictationEvents :
          RecognitionResult(event) =>
              input' = Joined(event.results, event.resultIndex + 1, Len(event.results))]_vars

\* a dictated sentence of two results is in the text field
C28_Witness ==
    /\ input = <<"q0", "q1">>
    /\ recognition \in {"active", "stopping"}

\* C29: the unmount cleanup stops the current source if there is one, closes
\* the AudioContext if there is one and stops the recognition, also when the
\* current source had been stopped before
C29_TeardownStopsEverything ==
    [][(mounted /\ ~mounted') =>
          /\ sources' = StopSource(sources, currentSourceRef)
          /\ Playing(sources') \cap {currentSourceRef} = {}
          /\ audioContextRef' = (IF audioContextRef = "none" THEN "none" ELSE "closed")
          /\ recognition' # "active"
          /\ (recognition = "active" => recognition' = "stopping")]_vars

\* unmounted while the current source was already stopped (voice had been
\* switched off during its playback) and the microphone was on
C29_Witness ==
    /\ ~mounted
    /\ ~isTTSEnabled
    /\ isSpeaking
    /\ currentSourceRef # 0
    /\ sources[currentSourceRef] = "stopped"
    /\ audioContextRef = "closed"
    /\ recognition = "stopping"
    /\ isListening

\* C30: after the unmount, a solveQuestion call or generateSpeech call that
\* settles changes no state of the conversation, sets no playback handle and
\* creates no AudioContext and no source
C30_SettlesAfterTeardownAreNoOps ==
    [][(~mounted /\ (requests' # requests \/ speech' # speech)) =>
          UNCHANGED <<messages, input, image, loading, revealedExplanations, isSpeaking,
                      isPaused, audioContextRef, currentSourceRef, sources>>]_vars

\* C31: every step leaves the transcript unchanged, appends one message at
\* its end, or removes messages that are all model messages appended by the
\* failure branch of a send, keeping the others in order; a user message and a
\* delivered answer are never removed, and no stored message ever changes
C31_AppendOnlyExceptRetry ==
    [][\/ messages' = messages
       \/ /\ Len(messages') = Len(messages) + 1
          /\ SubSeq(messages', 1, Len(messages)) = messages
       \/ /\ Len(messages') < Len(messages)
          /\ \A i \in Removed(messages, messages') :
                messages[i].role = "model" /\ messages[i].via = "failure"
          /\ messages' = SelectSeq(messages, LAMBDA m :
                            \E k \in 1..Len(messages') : messages'[k] = m)]_vars

\* C32: the ids of the messages of the transcript are pairwise distinct
C32_IdsDistinct ==
    \A i \in 1..Len(messages) : \A j \in 1..Len(messages) :
        i # j => messages[i].id # messages[j].id

\* C33: for every answer in the transcript (a model message appended by the
\* success branch of a send), the part of its text before the first
\* '[EXPLANATION]' marker is not empty
C33_AnswerPartNonEmpty ==
    \A i \in 1..Len(messages) :
        (messages[i].role = "model" /\ messages[i].via = "success") =>
            SplitPart0(messages[i].text) # <<>>

\* the strings the message render splits: the displayContent of each message
SplitStrings == {RenderDecode(messages[i].text).displayContent : i \in 1..Len(messages)}

\* the places of s where the marker stands
MarkerAt(s) == {p \in 1..Len(s) : StartsWithAt(s, EXPLANATION_MARKER, p)}

\* C34 as claimed: for every way of writing a rendered string as
\* A + '[EXPLANATION]' + B the split gives answer A and explanation B, and for
\* a string without the marker it gives the whole string and undefined
C34_SplitEveryString ==
    \A s \in SplitStrings :
        /\ \A p \in MarkerAt(s) :
              /\ SplitPart0(s) = SubSeq(s, 1, p - 1)
              /\ SplitPart1(s) = SubSeq(s, p + Len(EXPLANATION_MARKER), Len(s))
        /\ MarkerAt(s) = {} => (SplitPart0(s) = s /\ SplitPart1(s) = Undefined)

\* C34 as amended: the split gives answer A and explanation B for every
\* rendered string A + '[EXPLANATION]' + B in which neither A nor B contains
\* the marker, and the whole string and undefined for a string without it
C34_SplitTwoParts ==
    \A s \in SplitStrings :
        /\ \A p \in MarkerAt(s) :
              LET A == SubSeq(s, 1, p - 1)
                  B == SubSeq(s, p + Len(EXPLANATION_MARKER), Len(s))
              IN  (MarkerAt(A) = {} /\ MarkerAt(B) = {}) =>
                     (SplitPart0(s) = A /\ SplitPart1(s) = B)
        /\ MarkerAt(s) = {} => (SplitPart0(s) = s /\ SplitPart1(s) = Undefined)

\* the transcript holds a string without the marker and a two-part answer
C34_Witness ==
    /\ \E s \in SplitStrings : MarkerAt(s) = {} /\ s # <<>>
    /\ \E s \in SplitStrings :
          /\ MarkerAt(s) = {2}
          /\ SplitPart0(s) = <<"A">>
          /\ SplitPart1(s) = <<"B">>

\* C35: a mounted view makes its AudioContext in a playAudio and only when
\* it has none, and over every sequence of mounts, playbacks and unmounts at
\* most one AudioContext that is not closed exists
C35_OneOutputDevice ==
    /\ [](orphanContexts + (IF Open(audioContextRef) THEN 1 ELSE 0) <= 1)
    /\ [][(audioContextRef' # audioContextRef /\ Open(audioContextRef') /\ mounted') =>
             (audioContextRef = "none" /\ mounted) \/ Open(audioContextRef)]_vars

\* C36: whenever a source is playing (started, neither stopped nor ended) it
\* is the playback handle and isSpeaking is true
C36_PlayingSourceIsHandle ==
    \A n \in Playing(sources) : currentSourceRef = n /\ isSpeaking

\* C37: isPaused is never true while isSpeaking is false
C37_PausedImpliesSpeaking == isPaused => isSpeaking

\* C38: loading is true exactly when at least one AI request is pending
C38_LoadingIffPending == loading <=> requests # {}

\* C39: after a send accepted while the microphone was listening, a
\* recognition result that arrives after the send's stop() leaves the input
\* empty (a step that is not the user typing)
C39_ResultAfterSendKeepsInputEmpty ==
    [][(/\ nSends > 0
        /\ isListening
        /\ recognition = "stopping"
        /\ input = <<>>
        /\ ~(\E t \in Inputs : TypeInput(t))
        /\ \E event \in DictationEvents : RecognitionResult(event))
       => (input' = <<>>)]_vars

\* C40: at most one past-paper generation is in flight, isGenerating
\* returns to false, selecting a cached year issues no request and leaves the
\* cache alone, and a completed generation is stored under the key it was
\* requested for
C40_GenerationSerializedAndCached ==
    /\ [](Len(generations) <= 1)
    /\ [][\A y \in {YEARS[i] : i \in 1..Len(YEARS)} :
            (handleGenerate(y) /\ CacheGet(paperCache, PaperKey(selectedSubject, y)) # <<>>)
            => (generations' = generations /\ paperCache' = paperCache)]_vars
    /\ [][\A i \in 1..Len(generations) : \A raw \in PaperOutcomes :
            LET res == generatePastPaper(generations[i].subject, generations[i].year, raw)
            IN  (GenerateSettles(i, raw) /\ ~res.threw)
                => (CacheGet(paperCache', generations[i].key) = res.value)]_vars
    /\ ((downloaderMounted /\ isGenerating) ~> ~(downloaderMounted /\ isGenerating))

====
